---- MODULE Spec2Model ----
(***************************************************************************)
(* A model of pyFoil.py: the Airfoil entity (curve fit, derived quantities *)
(* TE / LE / s_LE / chord / twist, the geometric transforms), the sampling *)
(* and export routines and the cell-ratio diagnostic.                      *)
(*                                                                         *)
(* Real numbers are fixed-point integers: the real r is the integer        *)
(* r * Unit, every product and quotient is rounded to the nearest integer. *)
(* IEEE infinities and NaN are the sentinels Inf, -Inf and NaN.            *)
(* The curve library (pySpline) is outside the repository; it is modelled  *)
(* at its call contract as the piecewise-linear interpolant of the data    *)
(* points with knots uniformly spaced in s.                                *)
(***************************************************************************)
EXTENDS Integers, Sequences, FiniteSets, TLC

\* ------------------------------------------------------------ numbers

\* fixed-point scale: the integer Unit stands for the float 1.0
Unit == 1000

\* IEEE-754 +inf (numpy: 1.0 / 0.0) and NaN (0 * inf, 0.0 / 0.0)
Inf == 2147483647
NaN == 2147483646

\* np.pi and np.pi / 2, rounded so that Pi = 2 * HalfPi
Pi == 3142
HalfPi == 1571

Abs(a) == IF a < 0 THEN -a ELSE a

Sign(a) == IF a > 0 THEN 1 ELSE IF a < 0 THEN -1 ELSE 0

Min(a, b) == IF a < b THEN a ELSE b

\* a / b rounded to the nearest integer (half away from zero), b > 0
RoundDiv(a, b) == Sign(a) * ((2 * Abs(a) + b) \div (2 * b))

IsFinite(a) == a # Inf /\ a # -Inf /\ a # NaN

\* the largest r in lo..hi with r * r <= n
SqrtIter[n \in Nat, lo \in Nat, hi \in Nat] ==
    IF lo >= hi THEN lo
    ELSE IF ((lo + hi + 1) \div 2) * ((lo + hi + 1) \div 2) <= n
         THEN SqrtIter[n, (lo + hi + 1) \div 2, hi]
         ELSE SqrtIter[n, lo, ((lo + hi + 1) \div 2) - 1]

\* np.sqrt of a non-negative integer, rounded to the nearest integer
SqrtRound(n, r) == IF n - r * r > r THEN r + 1 ELSE r

Sqrt(n) == SqrtRound(n, SqrtIter[n, 0, 46340])

\* np.cos / np.sin of the angle a (radians): reduction to |r| <= pi/4 about
\* the nearest multiple of pi/2, then the Taylor polynomial
\* cos r and sin r for |r| <= pi/4, r2 = r * r
CosPoly(r2) ==
    Unit - RoundDiv(r2, 2) + RoundDiv(r2 * r2, 24 * Unit)
         - RoundDiv(r2 * r2 * r2, 720 * Unit * Unit)

SinPoly(r, r2) ==
    r - RoundDiv(r * r2, 6 * Unit) + RoundDiv(r * r2 * r2, 120 * Unit * Unit)

\* <<cos, sin>> of m * pi/2 + r from c = cos r and s = sin r
Quadrant(m, c, s) ==
    CASE m = 0 -> <<c, s>>
      [] m = 1 -> <<-s, c>>
      [] m = 2 -> <<-c, -s>>
      [] OTHER -> <<s, -c>>

CosSinReduced(q, r) ==
    Quadrant(q % 4, CosPoly(RoundDiv(r * r, Unit)), SinPoly(r, RoundDiv(r * r, Unit)))

CosSin(a) == CosSinReduced(RoundDiv(a, HalfPi), a - RoundDiv(a, HalfPi) * HalfPi)

\* ay * cos(t) - ax * sin(t): positive while t is below the angle of (ax, ay)
AtanGap(ay, ax, t) == ay * CosSin(t)[1] - ax * CosSin(t)[2]

\* the angle t in lo..hi of the first quadrant where AtanGap changes sign
AtanSearch[ay \in Nat, ax \in Nat, lo \in Nat, hi \in Nat] ==
    IF hi - lo <= 1
    THEN IF Abs(AtanGap(ay, ax, lo)) <= Abs(AtanGap(ay, ax, hi)) THEN lo ELSE hi
    ELSE IF AtanGap(ay, ax, (lo + hi) \div 2) >= 0
         THEN AtanSearch[ay, ax, (lo + hi) \div 2, hi]
         ELSE AtanSearch[ay, ax, lo, (lo + hi) \div 2]

\* np.arctan2(y, x) in radians
\* the angle of (x, y) from its angle t in the first quadrant
AtanSigned(y, x, t) ==
    IF x >= 0 THEN Sign(y) * t
    ELSE IF y >= 0 THEN Pi - t ELSE -(Pi - t)

ArcTan2(y, x) ==
    AtanSigned(y, x, IF y = 0 THEN 0
                     ELSE IF x = 0 THEN HalfPi
                     ELSE AtanSearch[Abs(y), Abs(x), 0, HalfPi])

\* np.deg2rad
Deg2Rad(d) == RoundDiv(d * Pi, 180 * Unit)

\* np.rad2deg / "* 180 / np.pi"
Rad2Deg(r) == RoundDiv(r * 180 * Unit, Pi)

\* float product v * f, f possibly +inf
MulF(v, f) ==
    IF f = Inf THEN (IF v = 0 THEN NaN ELSE IF v > 0 THEN Inf ELSE -Inf)
    ELSE RoundDiv(v * f, Unit)

\* float sum a + b, a possibly non-finite
AddF(a, b) == IF IsFinite(a) THEN a + b ELSE a

\* float quotient a / b of numpy floats: no exception on a zero divisor
DivF(a, b) ==
    IF b = 0 THEN (IF a = 0 THEN NaN ELSE IF a > 0 THEN Inf ELSE -Inf)
    ELSE RoundDiv(a * Unit, b)

\* ------------------------------------------------------------ point sets

Origin == <<0, 0>>

FinitePts(X) == \A i \in DOMAIN X : IsFinite(X[i][1]) /\ IsFinite(X[i][2])

Within(X, m) == \A i \in DOMAIN X : Abs(X[i][1]) <= m /\ Abs(X[i][2]) <= m

translateCoords(X, dX) ==
    [i \in DOMAIN X |-> <<X[i][1] + dX[1], X[i][2] + dX[2]>>]

\* np.dot(shifted_X, R.T) + origin for R = ((c, -s), (s, c)), cs = <<c, s>>
rotateBy(X, cs, origin) ==
    [i \in DOMAIN X |->
        <<RoundDiv((X[i][1] - origin[1]) * cs[1] - (X[i][2] - origin[2]) * cs[2], Unit)
            + origin[1],
          RoundDiv((X[i][1] - origin[1]) * cs[2] + (X[i][2] - origin[2]) * cs[1], Unit)
            + origin[2]>>]

rotateCoords(X, angle, origin) ==
    \* the binding evaluates cos and sin once
    CHOOSE Y \in {rotateBy(X, cs, origin) : cs \in {CosSin(angle)}} : TRUE

scaleCoords(X, scale, origin) ==
    [i \in DOMAIN X |->
        <<AddF(MulF(X[i][1] - origin[1], scale), origin[1]),
          AddF(MulF(X[i][2] - origin[2], scale), origin[2])>>]

\* ------------------------------------------------------------ the curve

\* pySpline.Curve(X=coords, k=order): the interpolating curve through coords;
\* the library lowers the order to the number of points, and cannot fit
\* fewer than two points
Curve(coords, order) ==
    [ok |-> Len(coords) >= 2, X |-> coords, k |-> Min(order, Len(coords))]

\* spline.getValue(s), s in [0, Unit]
\* the point of the segment from p to q at the fraction rem / Unit
Lerp(p, q, rem) ==
    <<p[1] + RoundDiv((q[1] - p[1]) * rem, Unit),
      p[2] + RoundDiv((q[2] - p[2]) * rem, Unit)>>

\* the curve through X at the position pos = s * (Len(X) - 1)
valueAt(X, pos) ==
    IF pos \div Unit >= Len(X) - 1 THEN X[Len(X)]
    ELSE Lerp(X[(pos \div Unit) + 1], X[(pos \div Unit) + 2], pos % Unit)

\* spline.getValue(s), s in [0, Unit]
getValue(spline, s) == valueAt(spline.X, s * (Len(spline.X) - 1))

\* the slope of the segment seg (counted from 0) of the curve through X
slopeAt(X, seg) ==
    <<(X[seg + 2][1] - X[seg + 1][1]) * (Len(X) - 1),
      (X[seg + 2][2] - X[seg + 1][2]) * (Len(X) - 1)>>

\* spline.getDerivative(s): the slope of the segment that starts at s
getDerivative(spline, s) ==
    slopeAt(spline.X, Min((s * (Len(spline.X) - 1)) \div Unit, Len(spline.X) - 2))

\* ------------------------------------------------------------ derived quantities

\* (a + b) / 2 of two points
Midpoint(a, b) == <<RoundDiv(a[1] + b[1], 2), RoundDiv(a[2] + b[2], 2)>>

getTE(spline) == Midpoint(getValue(spline, 0), getValue(spline, Unit))

\* dx * deriv[0] + dy * deriv[1] for (dx, dy) = pt - te
DotFrom(pt, te, deriv) == (pt[1] - te[1]) * deriv[1] + (pt[2] - te[2]) * deriv[2]

dellds(s, spline, te) == DotFrom(getValue(spline, s), te, getDerivative(spline, s))

\* the bracket of the leading-edge search, 0.3 and 0.7
BracketLo == 300
BracketHi == 700

\* the root search between a and b, where dellds has opposite, non-zero
\* signs: halving down to one unit of s
Bisect(spline, te, a, b) ==
    LET bis[lo \in Nat, hi \in Nat] ==
            IF hi - lo <= 1 THEN hi
            ELSE IF dellds((lo + hi) \div 2, spline, te) = 0 THEN (lo + hi) \div 2
            ELSE IF Sign(dellds((lo + hi) \div 2, spline, te)) = Sign(dellds(lo, spline, te))
                 THEN bis[(lo + hi) \div 2, hi]
                 ELSE bis[lo, (lo + hi) \div 2]
    IN bis[a, b]

\* scipy.optimize.brentq(dellds, a, b, args=(spline, TE)): a root of dellds in
\* [a, b] to within one unit of s, or ValueError when dellds has the same
\* sign at a and b
brentqFrom(spline, te, a, b, fa, fb) ==
    IF Sign(fa) * Sign(fb) > 0 THEN [exc |-> "ValueError", root |-> a]
    ELSE IF fa = 0 THEN [exc |-> "none", root |-> a]
    ELSE IF fb = 0 THEN [exc |-> "none", root |-> b]
    ELSE [exc |-> "none", root |-> Bisect(spline, te, a, b)]

brentq(spline, te, a, b) ==
    brentqFrom(spline, te, a, b, dellds(a, spline, te), dellds(b, spline, te))

\* "LE = self.spline.getValue(s_LE)" for the outcome r of brentq
LEat(spline, r) == [exc |-> r.exc, s_LE |-> r.root, LE |-> getValue(spline, r.root)]

\* getLE searching the whole parameter range instead of [0.3, 0.7]
getLE_wholeRange(spline, te) ==
    CHOOSE r \in {LEat(spline, root) : root \in {brentq(spline, te, 0, Unit)}} : TRUE

\* Airfoil.getLE: the root of dellds in [0.3, 0.7] and the curve's point there
getLE(spline, te) ==
    \* the binding evaluates the search once
    CHOOSE le \in {LEat(spline, r) : r \in {brentq(spline, te, BracketLo, BracketHi)}} : TRUE

getTwist(te, le) == Rad2Deg(ArcTan2(te[2] - le[2], te[1] - le[1]))

\* np.linalg.norm of (dx, dy)
Norm(dx, dy) == Sqrt(dx * dx + dy * dy)

getChord(te, le) == Norm(te[1] - le[1], te[2] - le[2])

\* ------------------------------------------------------------ bounds and inputs

\* the calls made on one airfoil
MaxOps == 3

\* the largest coordinate magnitude a transform may produce
MaxCoord == 2000

\* a unit-chord airfoil, TE at (1, 0), LE at the origin, zero twist
Diamond == << <<1000, 0>>, <<500, 100>>, <<0, 0>>, <<500, -100>>, <<1000, 0>> >>

\* the unit-chord airfoil turned by 90 degrees
Upright == << <<0, 1000>>, <<-100, 500>>, <<0, 0>>, <<100, 500>>, <<0, 1000>> >>

\* an open contour that crosses its own trailing-edge midpoint at s = 0.5
SCurve == << <<0, 1000>>, <<1000, 500>>, <<0, 0>>, <<-1000, -500>>, <<0, -1000>> >>

\* a contour whose farthest point lies at s = 0.2, outside the search bracket
EarlyLE == << <<1000, 0>>, <<0, 0>>, <<250, -50>>, <<500, -50>>, <<750, -50>>, <<1000, 0>> >>

\* a unit-chord airfoil whose farthest point from the TE lies at s = 0.4
Skewed == << <<1000, 0>>, <<500, 100>>, <<0, 0>>, <<300, -80>>, <<650, -60>>, <<1000, 0>> >>

\* too few points for a curve
OnePoint == << <<0, 0>> >>

Coords == {Diamond, Upright, Skewed, SCurve, EarlyLE, OnePoint}

Orders == {2, 3}

Angles == {90000, -90000}

Factors == {500, 2000}

Origins == {Origin, <<1000, 0>>}

Deltas == {<<1000, 0>>, <<-1000, 0>>}

\* ------------------------------------------------------------ state

VARIABLES
    obj,            \* "none" before the constructor has returned, then "live"
    spline_order,   \* self.spline_order
    spline,         \* self.spline
    TE,             \* self.TE
    LE,             \* self.LE
    s_LE,           \* self.s_LE
    chord,          \* self.chord
    twist,          \* self.twist (degrees)
    files,          \* the files written so far: name -> lines
    last,           \* the last call: its name, arguments, exception and result
    pre,            \* the airfoil as it was when the last call began
    nOps            \* calls made so far

vars == <<obj, spline_order, spline, TE, LE, s_LE, chord, twist, files, last, pre, nOps>>

airfoil == <<obj, spline_order, spline, TE, LE, s_LE, chord, twist>>

Cur ==
    [spline |-> spline, TE |-> TE, LE |-> LE, s_LE |-> s_LE,
     chord |-> chord, twist |-> twist]

Snap ==
    [obj |-> obj, spline_order |-> spline_order, spline |-> spline, TE |-> TE,
     LE |-> LE, s_LE |-> s_LE, chord |-> chord, twist |-> twist, files |-> files,
     op |-> last.op, args |-> last.args, exc |-> last.exc,
     back |-> [TE |-> pre.TE, LE |-> pre.LE, chord |-> pre.chord, twist |-> pre.twist]]

NoArgs == [none |-> TRUE]

\* the airfoil before the constructor has run: no field is set
Unbuilt ==
    [obj |-> "none", spline_order |-> 0, spline |-> [ok |-> FALSE, X |-> <<>>, k |-> 0],
     TE |-> Origin, LE |-> Origin, s_LE |-> 0, chord |-> 0, twist |-> 0, files |-> <<>>,
     op |-> "none", args |-> NoArgs, exc |-> "none",
     back |-> [TE |-> Origin, LE |-> Origin, chord |-> 0, twist |-> 0]]

Init ==
    /\ obj = "none"
    /\ spline_order = 0
    /\ spline = [ok |-> FALSE, X |-> <<>>, k |-> 0]
    /\ TE = Origin
    /\ LE = Origin
    /\ s_LE = 0
    /\ chord = 0
    /\ twist = 0
    /\ files = <<>>
    /\ nOps = 0
    /\ last = [op |-> "none", args |-> NoArgs, exc |-> "none", refit |-> "none", ret |-> <<>>]
    /\ pre = Unbuilt

\* ------------------------------------------------------------ recompute

\* Airfoil.recompute on finite points. The fields are assigned in turn, so an
\* exception leaves the ones already assigned new and the others as in cur.
\* recompute from "self.LE, self.s_LE = self.getLE()" on: le is getLE's outcome
recomputeLE(cur, sp, te, le) ==
    IF le.exc # "none"
    THEN [spline |-> sp, TE |-> te, LE |-> cur.LE, s_LE |-> cur.s_LE,
          chord |-> cur.chord, twist |-> cur.twist, exc |-> le.exc]
    ELSE [spline |-> sp, TE |-> te, LE |-> le.LE, s_LE |-> le.s_LE,
          chord |-> getChord(te, le.LE), twist |-> getTwist(te, le.LE),
          exc |-> "none"]

\* recompute from "self.TE = self.getTE()" on: sp is the fitted curve
recomputeTE(cur, sp) ==
    CHOOSE r \in {recomputeLE(cur, sp, te, getLE(sp, te)) : te \in {getTE(sp)}} : TRUE

recomputeFinite(cur, order, coords) ==
    IF ~Curve(coords, order).ok
    THEN cur @@ [exc |-> "CurveError"]
    ELSE recomputeTE(cur, Curve(coords, order))

\* Airfoil.recompute on points that hold inf or nan: what the curve library
\* and the root finder do with them is not decided by this repository, so
\* every outcome is possible: the fit raises; the fit returns a curve of nan
\* and the search raises; or everything completes on nan.
recomputeNonFinite(cur, order, coords) ==
    LET sp  == [ok |-> TRUE, X |-> coords, k |-> Min(order, Len(coords))]
        nan == <<NaN, NaN>>
    IN { cur @@ [exc |-> "CurveError"],
         [spline |-> sp, TE |-> nan, LE |-> cur.LE, s_LE |-> cur.s_LE,
          chord |-> cur.chord, twist |-> cur.twist, exc |-> "ValueError"],
         [spline |-> sp, TE |-> nan, LE |-> nan, s_LE |-> NaN,
          chord |-> NaN, twist |-> NaN, exc |-> "none"] }

\* the outcomes of self.recompute(coords)
recompute(cur, order, coords) ==
    IF FinitePts(coords) THEN {recomputeFinite(cur, order, coords)}
    ELSE recomputeNonFinite(cur, order, coords)

\* the airfoil can be computed with: every stored number is finite
Usable == obj = "live" /\ FinitePts(spline.X) /\ IsFinite(chord)

\* the assignment of recompute's outcome r to the fields
Store(r) ==
    /\ spline' = r.spline
    /\ TE' = r.TE
    /\ LE' = r.LE
    /\ s_LE' = r.s_LE
    /\ chord' = r.chord
    /\ twist' = r.twist

Called(op, args, exc, refit, ret) ==
    /\ last' = [op |-> op, args |-> args, exc |-> exc, refit |-> refit, ret |-> ret]
    /\ pre' = Snap
    /\ nOps' = nOps + 1

\* the transform ends in self.__init__(new_coords, spline_order=self.spline.k)
Reinit(op, args, new_coords) ==
    /\ FinitePts(new_coords) => Within(new_coords, MaxCoord)
    /\ \E c \in {new_coords} : \E r \in recompute(Cur, spline.k, c) :
          /\ Store(r)
          /\ spline_order' = spline.k
          /\ Called(op, args, r.exc, IF r.exc = "none" THEN "done" ELSE "failed", <<>>)
    /\ UNCHANGED <<obj, files>>

\* ------------------------------------------------------------ operations

\* Airfoil(coords, spline_order, normalize)
Construct(coords, order, normalize) ==
    /\ obj = "none"
    /\ nOps < MaxOps
    /\ \E r \in recompute(Cur, order, coords) :
          LET exc == IF r.exc # "none" THEN r.exc
                     ELSE IF normalize THEN "AttributeError" ELSE "none"
          IN /\ IF exc = "none"
                THEN /\ obj' = "live"
                     /\ spline_order' = order
                     /\ Store(r)
                ELSE UNCHANGED airfoil
             /\ Called("Airfoil", [coords |-> coords, spline_order |-> order,
                                   normalize |-> normalize],
                       exc, IF r.exc = "none" THEN "done" ELSE "failed", <<>>)
    /\ UNCHANGED files

\* airfoil.recompute(coords)
Recompute(coords) ==
    /\ Usable
    /\ nOps < MaxOps
    /\ \E r \in recompute(Cur, spline_order, coords) :
          /\ Store(r)
          /\ Called("recompute", [coords |-> coords], r.exc,
                    IF r.exc = "none" THEN "done" ELSE "failed", <<>>)
    /\ UNCHANGED <<obj, spline_order, files>>

\* airfoil.rotate(angle, origin)
Rotate(angle, origin) ==
    /\ Usable
    /\ nOps < MaxOps
    /\ Reinit("rotate", [angle |-> angle, origin |-> origin],
              rotateCoords(spline.X, Deg2Rad(angle), origin))

\* airfoil.derotate(origin)
Derotate(origin) ==
    /\ Usable
    /\ nOps < MaxOps
    /\ Reinit("derotate", [angle |-> -twist, origin |-> origin],
              rotateCoords(spline.X, Deg2Rad(-twist), origin))

\* airfoil.scale(factor, origin)
Scale(factor, origin) ==
    /\ Usable
    /\ nOps < MaxOps
    /\ Reinit("scale", [factor |-> factor, origin |-> origin],
              scaleCoords(spline.X, factor, origin))

\* airfoil.normalizeChord(origin)
NormalizeChord(origin) ==
    /\ Usable
    /\ nOps < MaxOps
    /\ IF chord = Unit
       THEN /\ Called("normalizeChord", [factor |-> Unit, origin |-> origin],
                      "none", "none", <<>>)
            /\ UNCHANGED <<airfoil, files>>
       ELSE Reinit("normalizeChord", [factor |-> DivF(Unit, chord), origin |-> origin],
                   scaleCoords(spline.X, DivF(Unit, chord), origin))

\* airfoil.translate(delta): the call of self._getDefaultSampling(), a method
\* the class does not define, raises before anything is changed
Translate(delta) ==
    /\ Usable
    /\ nOps < MaxOps
    /\ Called("translate", [delta |-> delta], "AttributeError", "none", <<>>)
    /\ UNCHANGED <<airfoil, files>>

\* airfoil.center()
Center ==
    /\ Usable
    /\ nOps < MaxOps
    /\ Called("center", [delta |-> <<-LE[1], -LE[2]>>],
              IF LE = Origin THEN "none" ELSE "AttributeError", "none", <<>>)
    /\ UNCHANGED <<airfoil, files>>

\* airfoil.normalizeAirfoil(derotate, normalize, center)
NormalizeAirfoil(derotate, normalize, center) ==
    /\ Usable
    /\ nOps < MaxOps
    /\ LET args == [derotate |-> derotate, normalize |-> normalize, center |-> center,
                    factor |-> IF normalize THEN DivF(Unit, chord) ELSE Unit]
           p0 == spline.X
           p1 == IF center THEN translateCoords(p0, <<-LE[1], -LE[2]>>) ELSE p0
           p2 == IF derotate THEN rotateCoords(p1, -twist, Origin) ELSE p1
           p3 == IF normalize THEN scaleCoords(p2, DivF(Unit, chord), Origin) ELSE p2
       IN IF derotate \/ normalize \/ center
          THEN /\ FinitePts(p3) => Within(p3, MaxCoord)
               /\ \E c \in {p3} : \E r \in recompute(Cur, spline_order, c) :
                     /\ Store(r)
                     /\ Called("normalizeAirfoil", args, r.exc,
                               IF r.exc = "none" THEN "done" ELSE "failed", <<>>)
               /\ UNCHANGED <<obj, spline_order, files>>
          ELSE /\ Called("normalizeAirfoil", args, "none", "none", <<>>)
               /\ UNCHANGED <<airfoil, files>>

ConstructAny == \E c \in Coords, o \in Orders, n \in BOOLEAN : Construct(c, o, n)

RecomputeAny == \E c \in Coords : Recompute(c)

RotateAny == \E a \in Angles, o \in Origins : Rotate(a, o)

DerotateAny == \E o \in Origins : Derotate(o)

ScaleAny == \E f \in Factors, o \in Origins : Scale(f, o)

NormalizeChordAny == \E o \in Origins : NormalizeChord(o)

TranslateAny == \E d \in Deltas : Translate(d)

NormalizeAirfoilAny == \E d \in BOOLEAN, n \in BOOLEAN, c \in BOOLEAN : NormalizeAirfoil(d, n, c)

Next ==
    \/ ConstructAny
    \/ RecomputeAny
    \/ RotateAny
    \/ DerotateAny
    \/ ScaleAny
    \/ NormalizeChordAny
    \/ TranslateAny
    \/ Center
    \/ NormalizeAirfoilAny

Spec == Init /\ [][Next]_vars

\* ------------------------------------------------------------ calls on a built airfoil

\* the calls of a routine that changes nothing of the airfoil
MaxCalls == 1

\* the state after Airfoil(coords, spline_order) has returned
InitLive ==
    \E c \in Coords, o \in Orders :
      \E r \in recompute(
                    [spline |-> [ok |-> FALSE, X |-> <<>>, k |-> 0], TE |-> Origin,
                     LE |-> Origin, s_LE |-> 0, chord |-> 0, twist |-> 0], o, c) :
           /\ r.exc = "none"
           /\ obj = "live"
           /\ spline_order = o
           /\ spline = r.spline
           /\ TE = r.TE
           /\ LE = r.LE
           /\ s_LE = r.s_LE
           /\ chord = r.chord
           /\ twist = r.twist
           /\ files = <<>>
           /\ nOps = 0
           /\ last = [op |-> "Airfoil",
                      args |-> [coords |-> c, spline_order |-> o, normalize |-> FALSE],
                      exc |-> "none", refit |-> "done", ret |-> <<>>]
           /\ pre = Unbuilt

\* ------------------------------------------------------------ sampling

\* the most points asked of the spacing policy, and of the trailing edge
MaxPts == 2
MaxTEPts == 2

\* the parameters a spacing policy may return
Params == {0, 500, 1000}

\* sampling.joinedSpacing(nPts, spacingFunc, func_args): the module is not
\* part of the sources at hand; by its contract it returns nPts parameters of
\* [0, 1] in order
joinedSpacing(nPts) ==
    {s \in [1..nPts -> Params] : \A i \in 1..(nPts - 1) : s[i] <= s[i + 1]}

\* np.linspace(start, stop, num), num >= 1
linspace(start, stop, num) ==
    [i \in 1..num |->
        IF num = 1 THEN start
        ELSE IF i = num THEN stop
        ELSE start + RoundDiv((i - 1) * (stop - start), num - 1)]

\* getSampledPts closing the trailing edge only when more than one point is
\* asked for
getSampledPts_blunt(sp, s, nTEPts) ==
    LET coords == [i \in 1..Len(s) |-> getValue(sp, s[i])]
    IN IF nTEPts > 1
       THEN LET tx == linspace(getValue(sp, Unit)[1], getValue(sp, 0)[1], nTEPts)
                ty == linspace(getValue(sp, Unit)[2], getValue(sp, 0)[2], nTEPts)
            IN coords \o [i \in 1..nTEPts |-> <<tx[i], ty[i]>>]
       ELSE coords

\* Airfoil.getSampledPts, from the parameters s the spacing policy returned
getSampledPts(sp, s, nTEPts) ==
    LET coords == [i \in 1..Len(s) |-> getValue(sp, s[i])]
    IN IF nTEPts # 0
       THEN LET tx == linspace(getValue(sp, Unit)[1], getValue(sp, 0)[1], nTEPts)
                ty == linspace(getValue(sp, Unit)[2], getValue(sp, 0)[2], nTEPts)
            IN coords \o [i \in 1..nTEPts |-> <<tx[i], ty[i]>>]
       ELSE coords

GetSampledPts(nPts, nTEPts) ==
    /\ Usable
    /\ nOps < MaxCalls
    /\ \E s \in joinedSpacing(nPts) :
          Called("getSampledPts", [nPts |-> nPts, nTEPts |-> nTEPts, s |-> s],
                 "none", "none", getSampledPts(spline, s, nTEPts))
    /\ UNCHANGED <<airfoil, files>>

GetSampledPtsAny == \E n \in 1..MaxPts, k \in 0..MaxTEPts : GetSampledPts(n, k)

NextSample == GetSampledPtsAny

SpecSample == InitLive /\ [][NextSample]_vars

\* ------------------------------------------------------------ export

\* the width of the error box
BoxWidth == 78

\* the string ch * n, for n in Nat
RepeatNat(ch) ==
    LET rep[n \in Nat] ==
            IF n = 0 THEN ""
            ELSE IF n % 2 = 0 THEN rep[n \div 2] \o rep[n \div 2]
            ELSE ch \o rep[n - 1]
    IN rep

\* the string ch * n: empty when n is negative
Repeat(ch, n) == IF n <= 0 THEN "" ELSE RepeatNat(ch)[n]

RECURSIVE BoxWords(_, _, _)
\* the loop of Error.__init__ over the words: msg is the text so far (a
\* sequence of pieces), i the column
BoxWords(words, msg, i) ==
    IF words = <<>> THEN [msg |-> msg, i |-> i]
    ELSE LET word == Head(words)
         IN IF Len(word) + i + 1 > BoxWidth
            THEN BoxWords(Tail(words), msg \o <<Repeat(" ", BoxWidth - i), "|\n| ", word, " ">>,
                          1 + Len(word) + 1)
            ELSE BoxWords(Tail(words), msg \o <<word, " ">>, i + Len(word) + 1)

\* the text Error.__init__ prints for the words of message.split()
BoxMessage(b) ==
    b.msg \o <<Repeat(" ", BoxWidth - b.i), "|\n", "+", Repeat("-", BoxWidth), "+", "\n">>

\* Error.__init__(message), message given as message.split(): the box is
\* printed, and then Exception.__init__() is called without self, which is a
\* TypeError, so that "raise Error(...)" ends in the TypeError
Error_init(words) ==
    [printed |-> BoxMessage(BoxWords(words,
                     <<"\n+", Repeat("-", BoxWidth), "+", "\n", "| pyFoil Error: ">>, 17)),
     exc |-> "TypeError"]

\* _writePlot3D(filename, x, y): the lines of filename.fmt
writePlot3D(coords) ==
    LET n == Len(coords)
        block(iDim) ==
            [m \in 1..(2 * n) |->
                LET j == (m - 1) \div n
                    i == ((m - 1) % n) + 1
                IN IF iDim = 0 THEN coords[i][1]
                   ELSE IF iDim = 1 THEN coords[i][2]
                   ELSE j * Unit]
    IN << <<1>>, <<n, 2, 1>> >> \o block(0) \o block(1) \o block(2)

\* _writeDat(filename, x, y): the lines of filename.dat; round(v, 12) changes
\* no number that has three decimals
writeDat(coords) ==
    [i \in 1..Len(coords) |-> <<coords[i][1], "\t\t", coords[i][2]>>]

Formats == {"plot3d", "dat", "csv", "tecplot"}

FileNames == {"naca", "out"}

\* Airfoil.writeCoords(coords, filename, fmt)
writeCoords(coords, filename, fmt) ==
    IF fmt = "plot3d"
    THEN [exc |-> "none", file |-> <<filename, ".fmt">>, lines |-> writePlot3D(coords),
          printed |-> <<>>]
    ELSE IF fmt = "dat"
    THEN [exc |-> "none", file |-> <<filename, ".dat">>, lines |-> writeDat(coords),
          printed |-> <<>>]
    ELSE LET e == Error_init(<<fmt, "is", "not", "a", "supported", "output", "format!">>)
         IN [exc |-> e.exc, file |-> <<>>, lines |-> <<>>, printed |-> e.printed]

WriteCoords(coords, filename, fmt) ==
    /\ Usable
    /\ nOps < MaxCalls
    /\ LET w == writeCoords(coords, filename, fmt)
       IN /\ files' = IF w.exc = "none"
                      THEN [f \in DOMAIN files \cup {w.file} |->
                               IF f = w.file THEN w.lines ELSE files[f]]
                      ELSE files
          /\ Called("writeCoords", [filename |-> filename, fmt |-> fmt, coords |-> coords],
                    w.exc, "none", w.printed)
    /\ UNCHANGED airfoil

WriteCoordsAny ==
    \E c \in Coords, f \in FileNames, m \in Formats : WriteCoords(c, f, m)

NextWrite == WriteCoordsAny

SpecWrite == InitLive /\ [][NextWrite]_vars

\* ------------------------------------------------------------ diagnostics

\* the longest point sequence handed to checkCellRatio
MaxLen == 4

\* 1e-10, the length below which a segment is critical: below the smallest
\* positive fixed-point number
CritTol == 1

\* the default ratio_tol, 1.2
RatioTol == 1200

CellPoints == {<<0, 0>>, <<1000, 0>>, <<1000, 1000>>, <<3000, 0>>}

\* a > b on floats: False when either is nan
GreaterF(a, b) == a # NaN /\ b # NaN /\ a > b

\* np.max of a non-empty float array: nan if any element is nan
MaxF(r) ==
    IF \E i \in DOMAIN r : r[i] = NaN THEN NaN
    ELSE CHOOSE m \in {r[i] : i \in DOMAIN r} : \A i \in DOMAIN r : r[i] <= m

RECURSIVE SumF(_)
SumF(r) == IF r = <<>> THEN 0 ELSE Head(r) + SumF(Tail(r))

\* np.average of a non-empty float array
AverageF(r) ==
    IF \E i \in DOMAIN r : r[i] = NaN THEN NaN
    ELSE IF \E i \in DOMAIN r : r[i] = Inf THEN Inf
    ELSE RoundDiv(SumF(r), Len(r))

\* checkCellRatio(X, ratio_tol); indices are the 0-based ones of the source
checkCellRatio(X, ratio_tol) ==
    LET n == Len(X)
        cell_size == [i \in 1..(n - 1) |->
                        Sqrt((X[i + 1][1] - X[i][1]) * (X[i + 1][1] - X[i][1])
                             + (X[i + 1][2] - X[i][2]) * (X[i + 1][2] - X[i][2]))]
        crit == {i - 1 : i \in {j \in 1..(n - 1) : cell_size[j] < CritTol}}
        cell_ratio == [i \in 1..(n - 2) |-> DivF(cell_size[i + 1], cell_size[i])]
        exc == {i - 1 : i \in {j \in 1..(n - 2) : GreaterF(cell_ratio[j], ratio_tol)}}
    IN IF Len(cell_ratio) = 0
       THEN [raised |-> "ValueError", critical |-> crit, ret |-> <<>>]
       ELSE [raised |-> "none", critical |-> crit,
             ret |-> <<cell_ratio, MaxF(cell_ratio), AverageF(cell_ratio), exc>>]

CheckCellRatio(X) ==
    /\ nOps < MaxCalls
    /\ LET c == checkCellRatio(X, RatioTol)
       IN Called("checkCellRatio", [X |-> X], c.raised, "none",
                 [critical |-> c.critical, ret |-> c.ret])
    /\ UNCHANGED <<airfoil, files>>

CheckCellRatioAny ==
    \E n \in 1..MaxLen : \E X \in [1..n -> CellPoints] : CheckCellRatio(X)

NextCell == CheckCellRatioAny

SpecCell == Init /\ [][NextCell]_vars

\* ------------------------------------------------------------ properties

\* the fields te .. tw are what recompute derives from the curve sp
Fresh(sp, te, le, sle, ch, tw) ==
    /\ te = getTE(sp)
    /\ getLE(sp, te).exc = "none"
    /\ sle = getLE(sp, te).s_LE
    /\ le = getLE(sp, te).LE
    /\ ch = getChord(te, le)
    /\ tw = getTwist(te, le)

\* the fields held before the last call were derived from the curve held then
PreFresh == Fresh(pre.spline, pre.TE, pre.LE, pre.s_LE, pre.chord, pre.twist)

\* a tenth of a degree: what rounding the coordinates can move an angle by
TwistTol == Unit \div 10

\* C1: whenever a call on an airfoil has returned or raised, TE, LE, s_LE,
\* chord and twist are the ones derived from the curve the airfoil holds
C1_DerivedFieldsMatchCurve ==
    (obj = "live" /\ FinitePts(spline.X)) =>
        Fresh(spline, TE, LE, s_LE, chord, twist)

AllFlags(a) == a.derotate /\ a.normalize /\ a.center

\* C2: normalizeAirfoil with all three steps on an airfoil of nonzero chord
\* leaves chord 1, twist 0 and the LE at the origin, and a second such call
\* changes nothing
C2_NormalizeAirfoilCanonical ==
    (last.op = "normalizeAirfoil" /\ AllFlags(last.args) /\ pre.chord # 0) =>
        /\ last.exc = "none"
        /\ chord = Unit
        /\ twist = 0
        /\ LE = Origin
        /\ (pre.op = "normalizeAirfoil" /\ AllFlags(pre.args) /\ pre.exc = "none") =>
               /\ spline.X = pre.spline.X
               /\ TE = pre.TE
               /\ LE = pre.LE
               /\ chord = pre.chord
               /\ twist = pre.twist

\* C3: translate(d) moves the curve by d and refits it, and translate(-d)
\* after translate(d) brings TE, LE, chord and twist back
C3_TranslateRoundTrip ==
    last.op = "translate" =>
        /\ last.exc = "none"
        /\ last.refit = "done"
        /\ spline.X = translateCoords(pre.spline.X, last.args.delta)
        /\ (pre.op = "translate"
            /\ pre.args.delta = <<-last.args.delta[1], -last.args.delta[2]>>) =>
               /\ TE = pre.back.TE
               /\ LE = pre.back.LE
               /\ chord = pre.back.chord
               /\ twist = pre.back.twist

\* C4: scale(k) with k > 0 completes, multiplies the chord by k (to the
\* model's resolution) and leaves the twist (to a tenth of a degree) and the
\* spline order as they were
C4_ScaleChordTwistOrder ==
    (last.op = "scale" /\ last.args.factor > 0) =>
        /\ last.exc = "none"
        /\ Abs(chord - MulF(pre.chord, last.args.factor)) <= 1
        /\ Abs(twist - pre.twist) <= TwistTol
        /\ spline.k = pre.spline.k

\* the statement of C4 on an airfoil whose fields matched its curve before
\* the call
ScaleOfConsistentAirfoil ==
    (last.op = "scale" /\ last.args.factor > 0 /\ PreFresh) =>
        /\ last.exc = "none"
        /\ Abs(chord - MulF(pre.chord, last.args.factor)) <= 1
        /\ Abs(twist - pre.twist) <= TwistTol
        /\ spline.k = pre.spline.k

\* C5: after every completed recompute of a finite curve, s_LE lies strictly
\* between 0 and 1 and LE is the curve's point at s_LE
C5_LeadingEdgeInterior ==
    (obj = "live" /\ last.refit = "done" /\ FinitePts(spline.X)) =>
        /\ 0 < s_LE
        /\ s_LE < Unit
        /\ LE = getValue(spline, s_LE)

\* C5 happens: a rotation has refitted the airfoil whose LE lies at s = 0.4
C5_Witness ==
    /\ obj = "live"
    /\ last.op = "rotate"
    /\ last.refit = "done"
    /\ Len(spline.X) = Len(Skewed)
    /\ s_LE = 400
    /\ LE = getValue(spline, s_LE)

\* C9: Airfoil(coords, normalize=True) on points that fit completes with
\* chord 1, twist 0 and the LE at the origin; with normalize=False it stores
\* what the given coordinates give
C9_ConstructorNormalize ==
    (last.op = "Airfoil" /\ last.refit = "done") =>
        /\ last.exc = "none"
        /\ obj = "live"
        /\ IF last.args.normalize
           THEN chord = Unit /\ twist = 0 /\ LE = Origin
           ELSE /\ spline.X = last.args.coords
                /\ Fresh(spline, TE, LE, s_LE, chord, twist)

\* C10: the chord is never negative, and a normalisation of an airfoil of
\* zero chord is reported as an error, without dividing by the chord and
\* without touching the curve
C10_ZeroChordDetected ==
    /\ (obj = "live" /\ IsFinite(chord)) => chord >= 0
    /\ (/\ last.op \in {"normalizeChord", "normalizeAirfoil"}
        /\ (last.op = "normalizeAirfoil" => last.args.normalize)
        /\ pre.chord = 0) =>
           /\ last.exc # "none"
           /\ last.args.factor # Inf
           /\ spline = pre.spline

\* C6: getSampledPts(nPts, nTEPts) returns nPts + nTEPts points: the curve at
\* each of the nPts parameters of the spacing, in order, then the nTEPts
\* points from the curve's end to its start
C6_SampledPointCount ==
    last.op = "getSampledPts" =>
        LET n == last.args.nPts
            k == last.args.nTEPts
            s == last.args.s
        IN /\ last.exc = "none"
           /\ Len(last.ret) = n + k
           /\ Len(s) = n
           /\ \A i \in 1..n : last.ret[i] = getValue(spline, s[i])
           /\ k >= 1 => last.ret[n + 1] = getValue(spline, Unit)
           /\ k >= 2 => last.ret[n + k] = getValue(spline, 0)

\* C6 happens: two points of the curve and two of the trailing edge
C6_Witness ==
    /\ last.op = "getSampledPts"
    /\ last.args.nPts = MaxPts
    /\ last.args.nTEPts = MaxTEPts
    /\ Len(last.ret) = MaxPts + MaxTEPts

\* C7: writeCoords with a format other than plot3d and dat raises Error with
\* a message naming the format, and writes no file
C7_UnsupportedFormatError ==
    (last.op = "writeCoords" /\ last.args.fmt \notin {"plot3d", "dat"}) =>
        /\ last.exc = "Error"
        /\ files = pre.files
        /\ \E i \in DOMAIN last.ret : last.ret[i] = last.args.fmt

\* C8: checkCellRatio never raises, whatever the points, and reports the
\* cells of zero length
C8_CheckCellRatioNeverRaises ==
    last.op = "checkCellRatio" =>
        /\ last.exc = "none"
        /\ last.ret.critical =
               {i \in 0..(Len(last.args.X) - 2) : last.args.X[i + 1] = last.args.X[i + 2]}

====
